---------------------------- MODULE Spec2Model ----------------------------
(***************************************************************************)
(* A model of gunicorn/wsgi.py: the response writer (Response,             *)
(* KeepAliveResponse) and the request session (Request, KeepAliveRequest). *)
(*                                                                         *)
(* Python text is modelled byte by byte: a text is a sequence of           *)
(* one-character strings, so that lower(), strip(), "%X" and the           *)
(* concatenations of the wire format are computed, not assumed.  A Python  *)
(* value is a record [t, v]: t = "str" for a basestring, t = "int" for a   *)
(* value that is no basestring.                                            *)
(***************************************************************************)
EXTENDS Naturals, Sequences, FiniteSets

(***************************************************************************)
(* Bounds of the model.                                                    *)
(***************************************************************************)
\* header lists of at most this many entries are given to start_response
MaxHeaders == 2
\* Response objects constructed by one session
MaxResponses == 2
\* send()/sendall() calls on the transport in the runs of one response
MaxSends == 4
\* send()/sendall() calls on the transport in the runs of a whole session
MaxSessionSends == 2
\* headers of a parsed request in the runs that build the context mapping
MaxRequestHeaders == 2
\* send()/sendall() calls on the transport in the runs of one cycle
MaxCycleSends == 4

(***************************************************************************)
(* Python values and text.                                                 *)
(***************************************************************************)
Str(s) == [t |-> "str", v |-> s]
Int(n) == [t |-> "int", v |-> n]

\* isinstance(x, basestring)
IsString(x) == x.t = "str"

UpperCase == <<"A","B","C","D","E","F","G","H","I","J","K","L","M",
               "N","O","P","Q","R","S","T","U","V","W","X","Y","Z">>
LowerCase == <<"a","b","c","d","e","f","g","h","i","j","k","l","m",
               "n","o","p","q","r","s","t","u","v","w","x","y","z">>

LowerChar(c) ==
    IF \E i \in 1..26 : UpperCase[i] = c
    THEN LowerCase[CHOOSE i \in 1..26 : UpperCase[i] = c]
    ELSE c

\* str.lower()
lower(s) == [i \in 1..Len(s) |-> LowerChar(s[i])]

Whitespace == {" ", "\t", "\n", "\r", "\f"}

RECURSIVE lstrip(_)
lstrip(s) ==
    IF s # <<>> /\ Head(s) \in Whitespace THEN lstrip(Tail(s)) ELSE s

RECURSIVE rstrip(_)
rstrip(s) ==
    IF s # <<>> /\ s[Len(s)] \in Whitespace
    THEN rstrip(SubSeq(s, 1, Len(s) - 1))
    ELSE s

\* str.strip()
strip(s) == rstrip(lstrip(s))

Digits == <<"0","1","2","3","4","5","6","7","8","9","A","B","C","D","E","F">>

\* "%X" % n  and  "%d" % n
RECURSIVE InBase(_, _)
InBase(n, b) ==
    IF n < b THEN <<Digits[n + 1]>>
    ELSE InBase(n \div b, b) \o <<Digits[(n % b) + 1]>>

Hex(n) == InBase(n, 16)

\* str(value): a text is itself, a number is its decimal numeral
str(x) == IF IsString(x) THEN x.v ELSE InBase(x.v, 10)

\* "".join(list)
RECURSIVE Join(_)
Join(parts) == IF parts = <<>> THEN <<>> ELSE Head(parts) \o Join(Tail(parts))

CRLF == <<"\r","\n">>

(***************************************************************************)
(* gunicorn.util: is_hoppish, write, write_chunk, http_date.               *)
(***************************************************************************)
HopHeaders ==
    { <<"c","o","n","n","e","c","t","i","o","n">>,
      <<"k","e","e","p","-","a","l","i","v","e">>,
      <<"p","r","o","x","y","-","a","u","t","h","e","n","t","i","c","a","t","e">>,
      <<"p","r","o","x","y","-","a","u","t","h","o","r","i","z","a","t","i","o","n">>,
      <<"t","e">>,
      <<"t","r","a","i","l","e","r","s">>,
      <<"t","r","a","n","s","f","e","r","-","e","n","c","o","d","i","n","g">>,
      <<"u","p","g","r","a","d","e">> }

is_hoppish(name) == strip(lower(name)) \in HopHeaders

\* write_chunk(sock, data): the bytes of one chunk frame
write_chunk(data) == Join(<<Hex(Len(data)), CRLF, data, CRLF>>)

\* write(sock, data, chunked): the bytes handed to sock.sendall
write(data, chunked) == IF chunked THEN write_chunk(data) ELSE data

\* http_date(): the wall-clock readings the model draws from
Dates ==
    { <<"T","u","e",","," ","0","3"," ","N","o","v"," ","2","0","2","6"," ",
        "1","0",":","0","0",":","0","0"," ","G","M","T">>,
      <<"T","u","e",","," ","0","3"," ","N","o","v"," ","2","0","2","6"," ",
        "1","0",":","0","0",":","0","1"," ","G","M","T">> }

(***************************************************************************)
(* Response.__init__                                                       *)
(***************************************************************************)
TransferEncoding ==
    <<"t","r","a","n","s","f","e","r","-","e","n","c","o","d","i","n","g">>
Connection == <<"c","o","n","n","e","c","t","i","o","n">>
Chunked == <<"c","h","u","n","k","e","d">>
Upgrade == <<"u","p","g","r","a","d","e">>

\* the exceptions the module raises or lets through
NoError == <<"none", "">>
NotAString == <<"AssertionError", "is not a string">>
HeadersAlreadySet == <<"AssertionError", "Response headers already set!">>
NoAttribute == <<"AttributeError", "object has no attribute">>
SocketError(errno) == <<"socket.error", errno>>

\* the object under construction: exc is the exception that ended the loop
Built(exc, chunked, headers) ==
    [exc |-> exc, chunked |-> chunked, headers |-> headers]

\* self.headers.append((name.strip(), str(value).strip()))
Kept(kept, name, value) == Append(kept, <<strip(name.v), strip(str(value))>>)

\* a comparison with "chunked" that forgets lower() and strip()
SetsChunkedExact(chunked, value) == chunked \/ value.v = Chunked

\* if value.lower().strip() == "chunked": self.chunked = True
SetsChunked(chunked, value) == chunked \/ strip(lower(value.v)) = Chunked

\* the loop over the header list, from the fields set so far
RECURSIVE HeaderLoop(_, _, _)
HeaderLoop(hs, chunked, kept) ==
    IF hs = <<>> THEN Built(NoError, chunked, kept)
    ELSE
      LET name  == Head(hs)[1]
          value == Head(hs)[2]
          rest  == Tail(hs)
      IN  IF ~IsString(name) THEN Built(NotAString, chunked, kept)
          ELSE IF is_hoppish(name.v) THEN
            LET lname == strip(lower(name.v)) IN
            IF lname = TransferEncoding THEN
                IF ~IsString(value) THEN Built(NoAttribute, chunked, kept)
                ELSE HeaderLoop(rest, SetsChunked(chunked, value),
                                Kept(kept, name, value))
            ELSE IF lname = Connection THEN
                IF ~IsString(value) THEN Built(NoAttribute, chunked, kept)
                ELSE IF strip(lower(value.v)) # Upgrade
                     THEN HeaderLoop(rest, chunked, kept)
                     ELSE HeaderLoop(rest, chunked, Kept(kept, name, value))
            ELSE HeaderLoop(rest, chunked, kept)
          ELSE HeaderLoop(rest, chunked, Kept(kept, name, value))

\* Response(req, status, headers)
ResponseInit(status, headers) ==
    LET b == HeaderLoop(headers, FALSE, <<>>)
    IN  [exc |-> b.exc, status |-> status, chunked |-> b.chunked,
         headers |-> b.headers, headers_sent |-> FALSE]

(***************************************************************************)
(* Inputs: what the handler callable and the stream parser may hand over.  *)
(***************************************************************************)
Header(name, value) == <<name, value>>

\* the headers a handler may put in a header list
HeaderPool ==
    { Header(Str(<<"T","r","a","n","s","f","e","r","-","E","n","c","o","d","i","n","g">>),
             Str(<<"c","h","u","n","k","e","d">>)),
      Header(Str(<<" ","T","R","A","N","S","F","E","R","-","E","N","C","O","D","I","N","G"," ">>),
             Str(<<" ","C","h","u","n","k","e","d"," ">>)),
      Header(Str(<<"T","r","a","n","s","f","e","r","-","E","n","c","o","d","i","n","g">>),
             Str(<<"g","z","i","p">>)),
      Header(Str(<<"C","o","n","n","e","c","t","i","o","n">>),
             Str(<<"U","p","g","r","a","d","e">>)),
      Header(Str(<<"c","o","n","n","e","c","t","i","o","n">>),
             Str(<<"c","l","o","s","e">>)),
      Header(Str(<<"K","e","e","p","-","A","l","i","v","e">>),
             Str(<<"t","i","m","e","o","u","t","=","5">>)),
      Header(Str(<<"C","o","n","t","e","n","t","-","T","y","p","e">>),
             Str(<<" ","t","e","x","t","/","p","l","a","i","n">>)),
      Header(Str(<<"X","-","C","o","u","n","t">>), Int(5)),
      Header(Str(<<"C","o","n","n","e","c","t","i","o","n">>), Int(5)),
      Header(Int(1), Str(<<"x">>)) }

RECURSIVE ListsUpTo(_, _)
ListsUpTo(S, n) ==
    IF n = 0 THEN { <<>> }
    ELSE LET shorter == ListsUpTo(S, n - 1)
         IN  shorter \cup { Append(l, h) : l \in shorter, h \in S }

\* every header list of at most MaxHeaders entries
AllHeaderLists == ListsUpTo(HeaderPool, MaxHeaders)

\* the header lists the session runs use: plain, chunked, rejected
SessionHeaderLists ==
    { <<>>,
      << Header(Str(<<"T","r","a","n","s","f","e","r","-","E","n","c","o","d","i","n","g">>),
                Str(<<"c","h","u","n","k","e","d">>)) >>,
      << Header(Int(1), Str(<<"x">>)) >> }

\* the header lists the runs of one response use: those, and an upgrade
WriterHeaderLists ==
    SessionHeaderLists \cup
    { << Header(Str(<<"C","o","n","n","e","c","t","i","o","n">>),
                Str(<<"U","p","g","r","a","d","e">>)) >> }

Status200 == <<"2","0","0"," ","O","K">>
Status500 == <<"5","0","0"," ","I","n","t","e","r","n","a","l"," ",
               "S","e","r","v","e","r"," ","E","r","r","o","r">>

\* exc_info: None, or the sys.exc_info() of a caught exception
NoExc == <<"None", "">>
HandlerError == <<"ValueError", "raised by the handler">>

\* the status and exc_info a handler calls start_response with: a plain
\* start, and the start of an error response from an except clause
StartCalls == { <<Status200, NoExc>>, <<Status500, HandlerError>> }

\* the arguments a handler may give to write()
Bodies ==
    { Str(<<>>),
      Str(<<"0","1","2","3","4","5","6","7","8","9","a","b","c","d","e","f">>),
      Int(7) }

\* the one body the session runs write
SessionBodies == { Str(<<"h","e","l","l","o">>) }

\* a record of the stream parser: its headers, its should_close() answer
\* and its path
Parsed(headers, close) ==
    [headers |-> headers, should_close |-> close, path |-> <<"/">>]

ExpectContinue ==
    << <<"E","x","p","e","c","t">>,
       <<"1","0","0","-","C","o","n","t","i","n","u","e">> >>
ExpectOther ==
    << <<"E","x","p","e","c","t">>, <<"2","0","0","-","o","k">> >>
HostHeader ==
    << <<"H","o","s","t">>, <<"e","x","a","m","p","l","e",".","o","r","g">> >>

ParsedRequests ==
    { Parsed(<<HostHeader>>, FALSE),
      Parsed(<<HostHeader, ExpectOther>>, TRUE),
      Parsed(<<HostHeader, ExpectContinue>>, FALSE) }

\* errno of a socket.error
ECONNRESET == "ECONNRESET"
EPIPE == "EPIPE"
Errnos == { ECONNRESET, EPIPE }


(***************************************************************************)
(* Request.read: the context mapping.  Python's str methods and            *)
(* urllib.unquote are computed on the bytes of the text.                   *)
(***************************************************************************)
\* None, and a (host, port) pair as socket.accept() gives it
None == [t |-> "none", v |-> <<>>]
Pair(a, b) == [t |-> "tuple", v |-> <<a, b>>]

\* the truth value of x in `x or y`
Truthy(x) ==
    IF x.t = "none" THEN FALSE
    ELSE IF x.t = "str" THEN x.v # <<>>
    ELSE IF x.t = "int" THEN x.v # 0
    ELSE TRUE

\* x or y
Or(x, y) == IF Truthy(x) THEN x ELSE y

UpperChar(c) ==
    IF \E i \in 1..26 : LowerCase[i] = c
    THEN UpperCase[CHOOSE i \in 1..26 : LowerCase[i] = c]
    ELSE c

\* str.upper()
upper(s) == [i \in 1..Len(s) |-> UpperChar(s[i])]

\* str.replace(old, new) for one-character old and new
replace(s, old, new) == [i \in 1..Len(s) |-> IF s[i] = old THEN new ELSE s[i]]

\* str.find(sep) + 1: where sep first occurs in s, 0 when it does not
find(s, sep) ==
    LET hits == IF Len(sep) > Len(s) THEN {}
                ELSE { i \in 1..(Len(s) - Len(sep) + 1) :
                         SubSeq(s, i, i + Len(sep) - 1) = sep }
    IN  IF hits = {} THEN 0
        ELSE CHOOSE i \in hits : \A j \in hits : i <= j

\* str.split(sep)
RECURSIVE split(_, _)
split(s, sep) ==
    LET i == find(s, sep) IN
    IF i = 0 THEN <<s>>
    ELSE <<SubSeq(s, 1, i - 1)>> \o split(SubSeq(s, i + Len(sep), Len(s)), sep)

\* str.split(sep, 1)
split1(s, sep) ==
    LET i == find(s, sep) IN
    IF i = 0 THEN <<s>>
    ELSE <<SubSeq(s, 1, i - 1), SubSeq(s, i + Len(sep), Len(s))>>

\* list[-1]
Last(list) == list[Len(list)]

\* the printable bytes, from 0x20 to 0x7E ("0x60" stands for the backquote,
\* which has no string form here)
Ascii ==
    <<
      " ","!","\"","#","$","%","&","'","(",")","*","+",",","-",".","/",
      "0","1","2","3","4","5","6","7","8","9",":",";","<","=",">","?",
      "@","A","B","C","D","E","F","G","H","I","J","K","L","M","N","O",
      "P","Q","R","S","T","U","V","W","X","Y","Z","[","\\","]","^","_",
      "0x60","a","b","c","d","e","f","g","h","i","j","k","l","m","n","o",
      "p","q","r","s","t","u","v","w","x","y","z","{","|","}","~"
    >>

\* chr(n); the paths of the model quote printable bytes only
chr(n) == IF n \in 32..126 THEN Ascii[n - 31] ELSE "\\x"

IsHexDigit(c) == \E i \in 1..16 : Digits[i] = UpperChar(c)
HexValue(c) == (CHOOSE i \in 1..16 : Digits[i] = UpperChar(c)) - 1

\* urllib.unquote, one piece after a "%": _hextochr[item[:2]] + item[2:],
\* and on KeyError "%" + item
Unquoted(item) ==
    IF Len(item) >= 2 /\ IsHexDigit(item[1]) /\ IsHexDigit(item[2])
    THEN <<chr(16 * HexValue(item[1]) + HexValue(item[2]))>>
         \o SubSeq(item, 3, Len(item))
    ELSE <<"%">> \o item

\* urllib.unquote(s)
unquote(s) ==
    LET res == split(s, <<"%">>) IN
    Join(<<res[1]>> \o [i \in 1..(Len(res) - 1) |-> Unquoted(res[i + 1])])

\* the names the header scan of read() looks for, lower-cased
XForwardedFor == <<"x","-","f","o","r","w","a","r","d","e","d","-","f","o","r">>
ScriptNameHeader == <<"s","c","r","i","p","t","_","n","a","m","e">>
ContentType == <<"c","o","n","t","e","n","t","-","t","y","p","e">>
ContentLength == <<"c","o","n","t","e","n","t","-","l","e","n","g","t","h">>

\* the headers of the list whose lower-cased name is `name`
Named(headers, name) ==
    { k \in 1..Len(headers) : lower(headers[k][1]) = name }

\* what a variable of the header scan holds after the loop: the value of
\* the last header of that name, or what it held before the loop
Scanned(headers, name, initial) ==
    IF Named(headers, name) = {} THEN initial
    ELSE headers[CHOOSE k \in Named(headers, name) :
                     \A j \in Named(headers, name) : j <= k][2]

DefaultAddress == <<"1","2","7",".","0",".","0",".","1">>

\* client_address = self.client_address or "127.0.0.1";
\* forward_address = client_address, or the X-Forwarded-For value
forward_address(headers, address) ==
    IF Named(headers, XForwardedFor) = {}
    THEN Or(address, Str(DefaultAddress))
    ELSE Str(Scanned(headers, XForwardedFor, <<>>))

\* forward_adress = forward_address.split(",")[-1].strip(): the value of a
\* name that nothing reads afterwards
forward_adress(forward) == strip(Last(split(forward.v, <<",">>)))

\* remote_addr = forward_address.split(":"), with '' appended to a list of
\* one; a forward_address that is no text is taken as it is
remote_addr(forward) ==
    IF IsString(forward)
    THEN LET parts == split(forward.v, <<":">>)
             list  == IF Len(parts) = 1 THEN Append(parts, <<>>) ELSE parts
         IN  [i \in 1..Len(list) |-> Str(list[i])]
    ELSE forward.v

\* script_name = os.environ.get("SCRIPT_NAME", ""), or the header's value
script_name(headers, env) == Scanned(headers, ScriptNameHeader, env)

\* a path_info that strips the script name only where the path begins
\* with it
path_info_prefix(path, script) ==
    IF script # <<>> /\ find(path, script) = 1
    THEN SubSeq(path, Len(script) + 1, Len(path))
    ELSE path

\* path_info = req.path;
\* if script_name: path_info = path_info.split(script_name, 1)[-1]
path_info(path, script) ==
    IF script # <<>> THEN Last(split1(path, script)) ELSE path

\* the keys of the context mapping
SCRIPT_NAME == <<"S","C","R","I","P","T","_","N","A","M","E">>
PATH_INFO == <<"P","A","T","H","_","I","N","F","O">>
RAW_URI == <<"R","A","W","_","U","R","I">>
CONTENT_TYPE == <<"C","O","N","T","E","N","T","_","T","Y","P","E">>
CONTENT_LENGTH == <<"C","O","N","T","E","N","T","_","L","E","N","G","T","H">>
REMOTE_ADDR == <<"R","E","M","O","T","E","_","A","D","D","R">>
REMOTE_PORT == <<"R","E","M","O","T","E","_","P","O","R","T">>
HTTP_ == <<"H","T","T","P","_">>
HTTP_CONTENT_TYPE == <<"H","T","T","P","_","C","O","N","T","E","N","T","_","T","Y","P","E">>
HTTP_CONTENT_LENGTH == <<"H","T","T","P","_","C","O","N","T","E","N","T","_","L","E","N","G","T","H">>

\* environ = { ... }: the entries read() derives from the request, the
\* client address and the script name
RequestKeys ==
    { SCRIPT_NAME, PATH_INFO, RAW_URI, CONTENT_TYPE, CONTENT_LENGTH,
      REMOTE_ADDR, REMOTE_PORT }

RequestEntries(next, address, env) ==
    LET remote == remote_addr(forward_address(next.headers, address))
        script == script_name(next.headers, env)
    IN  [ key \in RequestKeys |->
            IF key = SCRIPT_NAME THEN Str(script)
            ELSE IF key = PATH_INFO
            THEN Str(unquote(path_info(next.path, script)))
            ELSE IF key = RAW_URI THEN Str(next.path)
            ELSE IF key = CONTENT_TYPE
            THEN Str(Scanned(next.headers, ContentType, <<>>))
            ELSE IF key = CONTENT_LENGTH
            THEN Str(Scanned(next.headers, ContentLength, <<>>))
            ELSE IF key = REMOTE_ADDR THEN remote[1]
            ELSE Str(str(remote[2])) ]

\* environ[key] = value
Put(mapping, key, value) ==
    [ k \in DOMAIN mapping \cup { key } |->
        IF k = key THEN value ELSE mapping[k] ]

\* key = 'HTTP_' + key.upper().replace('-', '_')
HeaderKey(name) == HTTP_ \o replace(upper(name), "-", "_")

\* a pass-through that skips no key
SkippedNever(key) == FALSE

\* if key not in ('HTTP_CONTENT_TYPE', 'HTTP_CONTENT_LENGTH')
Skipped(key) == key \in { HTTP_CONTENT_TYPE, HTTP_CONTENT_LENGTH }

\* for key, value in req.headers: ... environ[key] = value
RECURSIVE PassThrough(_, _)
PassThrough(mapping, headers) ==
    IF headers = <<>> THEN mapping
    ELSE LET key == HeaderKey(Head(headers)[1]) IN
         PassThrough(IF Skipped(key) THEN mapping
                     ELSE Put(mapping, key, Str(Head(headers)[2])),
                     Tail(headers))

\* the mapping read() returns
Environ(next, address, env) ==
    PassThrough(RequestEntries(next, address, env), next.headers)

\* the mapping of a session whose read() has returned none yet
NoEnviron == [ key \in {} |-> None ]

(***************************************************************************)
(* The inputs of the runs that build the context mapping.                  *)
(***************************************************************************)
\* the headers a parsed request may carry
RequestHeaderPool ==
    { << <<"X","-","F","o","r","w","a","r","d","e","d","-","F","o","r">>, <<"1","0",".","0",".","0",".","1",","," ","1","0",".","0",".","0",".","2",","," ","2","0","3",".","0",".","1","1","3",".","5">> >>,
      << <<"x","-","f","o","r","w","a","r","d","e","d","-","f","o","r">>, <<"1","0",".","0",".","0",".","9">> >>,
      << <<"C","o","n","t","e","n","t","-","T","y","p","e">>, <<"t","e","x","t","/","p","l","a","i","n">> >>,
      << <<"C","o","n","t","e","n","t","-","L","e","n","g","t","h">>, <<"5">> >>,
      << <<"C","o","n","t","e","n","t","_","T","y","p","e">>, <<"t","e","x","t","/","h","t","m","l">> >>,
      << <<"E","x","p","e","c","t">>, <<"1","0","0","-","C","o","n","t","i","n","u","e">> >>,
      << <<"E","x","p","e","c","t">>, <<"2","0","0","-","o","k">> >>,
      << <<"S","c","r","i","p","t","_","N","a","m","e">>, <<"/","a","p","p">> >>,
      << <<"X","-","R","e","q","u","e","s","t","-","I","d">>, <<"7">> >> }

RequestPaths ==
    { <<"/","a","p","p","/","a","p","i","/","u","s","e","r","s">>, <<"/","a","p","i","/","a","p","p","/","u","s","e","r","s">>, <<"/","a","p","p","/","a","%","2","0","b","%","z","z">>, <<"/">> }

\* a parsed request at a path
ParsedAt(path, headers) ==
    [headers |-> headers, should_close |-> FALSE, path |-> path]

EnvironRequests ==
    { ParsedAt(path, headers) :
        path \in RequestPaths,
        headers \in ListsUpTo(RequestHeaderPool, MaxRequestHeaders) }

\* the client_address a session is constructed with: none, a text with a
\* port, without one, an IPv6 text, and the pair accept() returns
ClientAddresses ==
    { None,
      Str(<<"1","9","2",".","1","6","8",".","1",".","5",":","5","4","3","2","1">>),
      Str(<<"1","9","2",".","1","6","8",".","1",".","5">>),
      Str(<<"[",":",":","1","]",":","5","4","3","2","1">>),
      Pair(Str(<<"1","0",".","1",".","1",".","1">>), Int(4711)) }

\* os.environ.get("SCRIPT_NAME", "")
ScriptEnvs == { <<>>, <<"/","a","p","p">> }

\* the client_address and environment of the session and writer runs
SessionAddress == Pair(Str(<<"1","2","7",".","0",".","0",".","1">>), Int(5000))

(***************************************************************************)
(* State.                                                                  *)
(***************************************************************************)
VARIABLES
    variant,    \* the session's class: "Request" or "KeepAliveRequest"
    req,        \* Request.req: NoReq (None) or the parsed request
    response,   \* Request.response: 0 (None) or an index of resps
    resps,      \* the Response objects constructed, in order
    sock,       \* the transport: the send()/sendall() calls it received
    result,     \* how the last call ended: what it returned or raised
    held,       \* the responses whose write callable this cycle's handler got
    closed,     \* the responses on which close() has completed
    origin,     \* per response, the parsed request current at its construction
    client_address, \* Request.client_address
    os_environ,     \* os.environ.get("SCRIPT_NAME", "")
    environ         \* the mapping the last read() returned

vars == <<variant, req, response, resps, sock, result, held, closed, origin,
          client_address, os_environ, environ>>

\* self.req = None
NoReq == [none |-> TRUE]

\* the last call: its arguments, and the value it returned ("write" is the
\* write callable of the session's response) or the exception it raised
Returned(op, args, value) ==
    [op |-> op, args |-> args, kind |-> "return", value |-> value,
     exc |-> NoError]
Raised(op, args, exc) ==
    [op |-> op, args |-> args, kind |-> "raise", value |-> "", exc |-> exc]

\* one call of send()/sendall(): who made it, for which response, the bytes
Sent(op, r, data) == [op |-> op, resp |-> r, data |-> data]

Init ==
    /\ variant \in { "Request", "KeepAliveRequest" }
    /\ req = NoReq
    /\ response = 0
    /\ resps = <<>>
    /\ sock = <<>>
    /\ result = Returned("__init__", <<>>, "None")
    /\ held = {}
    /\ closed = {}
    /\ origin = <<>>
    /\ client_address = SessionAddress
    /\ os_environ = <<>>
    /\ environ = NoEnviron

(***************************************************************************)
(* Response.default_headers, KeepAliveResponse.default_headers             *)
(***************************************************************************)
\* SERVER_VERSION = "gunicorn/%s" % __version__
SERVER_VERSION == <<"g","u","n","i","c","o","r","n","/","0",".","6">>

StatusLine(status) == Join(<< <<"H","T","T","P","/","1",".","1"," ">>, status, CRLF >>)
ServerLine == Join(<< <<"S","e","r","v","e","r",":"," ">>, SERVER_VERSION, CRLF >>)
DateLine(date) == Join(<< <<"D","a","t","e",":"," ">>, date, CRLF >>)
ConnectionLine(value) ==
    Join(<< <<"C","o","n","n","e","c","t","i","o","n",":"," ">>, value, CRLF >>)

Close_ == <<"c","l","o","s","e">>
KeepAlive == <<"k","e","e","p","-","a","l","i","v","e">>

\* Response.default_headers
default_headers(status, date) ==
    << StatusLine(status), ServerLine, DateLine(date), ConnectionLine(Close_) >>

\* the two connection values the wrong way round
KeepAliveConnectionSwapped(should_close) ==
    IF should_close THEN KeepAlive ELSE Close_

\* the connection value KeepAliveResponse.default_headers picks
KeepAliveConnection(should_close) == IF should_close THEN Close_ ELSE KeepAlive

\* KeepAliveResponse.default_headers
keepalive_default_headers(status, date, should_close) ==
    << StatusLine(status), ServerLine, DateLine(date),
       ConnectionLine(KeepAliveConnection(should_close)) >>

\* "%s: %s\r\n" % (n, v)
HeaderLine(h) == Join(<< h[1], <<":"," ">>, h[2], CRLF >>)

HeaderLines(headers) == [i \in 1..Len(headers) |-> HeaderLine(headers[i])]

\* "%s\r\n" % "".join(tosend)
HeaderBlock(tosend, headers) == Join(tosend \o HeaderLines(headers)) \o CRLF

(***************************************************************************)
(* Response.send_headers, as write() and close() call it: what it raises,  *)
(* the sendall() calls it makes and the headers_sent it leaves.            *)
(* sendall() on the response path is taken to complete: a transport error  *)
(* there ends the connection and the worker drops the session.             *)
(***************************************************************************)
Effect(exc, out, sent) == [exc |-> exc, out |-> out, headers_sent |-> sent]

\* a send_headers() that does not look at headers_sent
AlreadySentUnchecked(r) == FALSE

\* if self.headers_sent: return
AlreadySent(r) == resps[r].headers_sent

send_headers(r, date) ==
    IF AlreadySent(r) THEN Effect(NoError, <<>>, TRUE)
    ELSE IF variant = "KeepAliveRequest"
    THEN IF req = NoReq
         THEN Effect(NoAttribute, <<>>, FALSE)
         ELSE Effect(NoError,
                     << Sent("send_headers", r,
                             HeaderBlock(keepalive_default_headers(
                                             resps[r].status, date, req.should_close),
                                         resps[r].headers)) >>,
                     TRUE)
    ELSE Effect(NoError,
                << Sent("send_headers", r,
                        HeaderBlock(default_headers(resps[r].status, date),
                                    resps[r].headers)) >>,
                TRUE)

\* the responses a caller can reach: this cycle's write callables and
\* the session's response attribute
Reachable == held \cup (IF response = 0 THEN {} ELSE { response })

SetSent(r, sent) == [resps EXCEPT ![r].headers_sent = sent]

\* a write() that leaves the headers to the caller
WriteHeadersSkipped(r, date) == Effect(NoError, <<>>, resps[r].headers_sent)

\* write(): self.send_headers()
WriteHeaders(r, date) == send_headers(r, date)

\* close(): if not self.headers_sent: self.send_headers()
CloseHeaders(r, date) ==
    IF ~resps[r].headers_sent THEN send_headers(r, date)
    ELSE Effect(NoError, <<>>, TRUE)

SendHeaders(r, date) ==
    /\ r \in Reachable
    /\ LET h == send_headers(r, date) IN
         /\ sock' = sock \o h.out
         /\ resps' = SetSent(r, h.headers_sent)
         /\ result' = IF h.exc = NoError
                      THEN Returned("send_headers", <<r>>, "None")
                      ELSE Raised("send_headers", <<r>>, h.exc)
    /\ UNCHANGED <<variant, req, response, held, closed, origin,
                 client_address, os_environ, environ>>

(***************************************************************************)
(* Response.write                                                          *)
(***************************************************************************)
\* a write() that does not pass self.chunked on
BodyOutRaw(r, arg) == << Sent("write", r, write(arg.v, FALSE)) >>

\* write(self.req.socket, arg, self.chunked)
BodyOut(r, arg) == << Sent("write", r, write(arg.v, resps[r].chunked)) >>

Write(r, arg, date) ==
    /\ r \in Reachable
    /\ LET h == WriteHeaders(r, date) IN
         IF h.exc # NoError
         THEN /\ result' = Raised("write", <<r, arg>>, h.exc)
              /\ UNCHANGED <<sock, resps>>
         ELSE IF ~IsString(arg)
         THEN /\ result' = Raised("write", <<r, arg>>, NotAString)
              /\ sock' = sock \o h.out
              /\ resps' = SetSent(r, h.headers_sent)
         ELSE /\ result' = Returned("write", <<r, arg>>, "None")
              /\ sock' = sock \o h.out \o BodyOut(r, arg)
              /\ resps' = SetSent(r, h.headers_sent)
    /\ UNCHANGED <<variant, req, response, held, closed, origin,
                 client_address, os_environ, environ>>

(***************************************************************************)
(* Response.close                                                          *)
(***************************************************************************)
\* a close() that ends every response with the zero-length chunk
TerminatorAlways(r) == << Sent("close", r, write_chunk(<<>>)) >>

\* if self.chunked: write_chunk(self.req.socket, "")
Terminator(r) ==
    IF resps[r].chunked THEN << Sent("close", r, write_chunk(<<>>)) >> ELSE <<>>

Close(r, date) ==
    /\ r \in Reachable
    /\ LET h == CloseHeaders(r, date) IN
         IF h.exc # NoError
         THEN /\ result' = Raised("close", <<r>>, h.exc)
              /\ UNCHANGED <<sock, resps, closed>>
         ELSE /\ result' = Returned("close", <<r>>, "None")
              /\ sock' = sock \o h.out \o Terminator(r)
              /\ resps' = SetSent(r, h.headers_sent)
              /\ closed' = closed \cup { r }
    /\ UNCHANGED <<variant, req, response, held, origin,
                 client_address, os_environ, environ>>

(***************************************************************************)
(* Request.start_response                                                  *)
(***************************************************************************)
\* a start_response that re-raises whenever a response is held
ReraisesAnyResponse(exc_info) == exc_info # NoExc /\ response # 0

\* if exc_info: ... if self.response and self.response.headers_sent: raise
Reraises(exc_info) ==
    exc_info # NoExc /\ response # 0 /\ resps[response].headers_sent

\* a start_response that lets a second plain call through
AlreadySetIgnored(exc_info) == FALSE

\* elif self.response is not None: raise AssertionError
AlreadySet(exc_info) == exc_info = NoExc /\ response # 0

\* a start_response that lets go of its response when it raises
RaisesDropping(args, exc) ==
    /\ result' = Raised("start_response", args, exc)
    /\ response' = 0
    /\ UNCHANGED <<resps, held, origin>>

\* raise: the call ends before self.response is assigned
Raises(args, exc) ==
    /\ result' = Raised("start_response", args, exc)
    /\ UNCHANGED <<response, resps, held, origin>>

start_response(status, headers, exc_info) ==
    /\ UNCHANGED <<variant, req, sock, closed, client_address, os_environ, environ>>
    /\ IF Reraises(exc_info)
       THEN Raises(<<status, headers, exc_info>>, exc_info)
       ELSE IF AlreadySet(exc_info)
       THEN Raises(<<status, headers, exc_info>>, HeadersAlreadySet)
       ELSE LET new == ResponseInit(status, headers) IN
            IF new.exc # NoError
            THEN Raises(<<status, headers, exc_info>>, new.exc)
            ELSE /\ resps' = Append(resps, [status |-> new.status,
                                           chunked |-> new.chunked,
                                           headers |-> new.headers,
                                           headers_sent |-> FALSE])
                 /\ response' = Len(resps) + 1
                 /\ held' = held \cup { Len(resps) + 1 }
                 /\ origin' = Append(origin, req)
                 /\ result' = Returned("start_response",
                                        <<status, headers, exc_info>>, "write")

\* whether the call gets as far as constructing a Response
Constructs(exc_info) == ~Reraises(exc_info) /\ ~AlreadySet(exc_info)

\* the handler's call, with any status, header list and exc_info
StartResponse ==
    \E call \in StartCalls, headers \in SessionHeaderLists :
        /\ Constructs(call[2]) => Len(resps) < MaxResponses
        /\ start_response(call[1], headers, call[2])

\* a handler's one call, with any header list
StartResponseOnce ==
    \E headers \in AllHeaderLists : start_response(Status200, headers, NoExc)

(***************************************************************************)
(* Request.read, KeepAliveRequest.read                                     *)
(***************************************************************************)
Expect == <<"e","x","p","e","c","t">>
Continue100 == <<"1","0","0","-","c","o","n","t","i","n","u","e">>
ContinueLine ==
    <<"H","T","T","P","/","1",".","1"," ","1","0","0"," ",
      "C","o","n","t","i","n","u","e","\r","\n","\r","\n">>

\* a header scan that compares the name and the value as they came
Expects100Exact(name, value) == name = Expect /\ value = Continue100

\* if name == "expect": if hdr_value.lower() == "100-continue":
Expects100(name, value) == lower(name) = Expect /\ lower(value) = Continue100

\* the header scan's self.socket.send() calls, one per Expect: 100-continue
RECURSIVE ExpectSends(_)
ExpectSends(headers) ==
    IF headers = <<>> THEN <<>>
    ELSE (IF Expects100(Head(headers)[1], Head(headers)[2])
          THEN << Sent("read", 0, ContinueLine) >> ELSE <<>>)
         \o ExpectSends(Tail(headers))

\* the header scan's sends for each request the parser can hand over
HeaderScan ==
    [ next \in ParsedRequests \cup EnvironRequests |-> ExpectSends(next.headers) ]

\* an except clause that returns on every socket.error
AbsorbsAll(errno) == variant = "KeepAliveRequest"

\* except socket.error, e: if e[0] == errno.ECONNRESET: return
Absorbs(errno) == variant = "KeepAliveRequest" /\ errno = ECONNRESET

\* how read() ends when a socket.error with this errno is raised inside it
ReadFailure(errno) ==
    IF Absorbs(errno) THEN Returned("read", <<>>, "None")
    ELSE Raised("read", <<>>, SocketError(errno))

\* the mapping read() returns for each request of the session and writer
\* runs
SessionEnviron ==
    [ next \in ParsedRequests |-> Environ(next, SessionAddress, <<>>) ]

\* the next cycle begins only after the previous cycle's close(); its
\* handler holds no write callable yet
BeginsCycle ==
    /\ response = 0 \/ response \in closed
    /\ held' = {}
    /\ UNCHANGED <<variant, response, resps, closed, origin,
                 client_address, os_environ>>

\* read() when self.parser.next() raises socket.error(errno)
ReadRaises(errno) ==
    /\ BeginsCycle
    /\ result' = ReadFailure(errno)
    /\ UNCHANGED <<req, sock, environ>>

\* read() when the parser hands over `next` and every send() completes
ReadParsed(next) ==
    /\ BeginsCycle
    /\ req' = next
    /\ sock' = sock \o HeaderScan[next]
    /\ environ' = IF next \in ParsedRequests
                  /\ client_address = SessionAddress /\ os_environ = <<>>
                  THEN SessionEnviron[next]
                  ELSE Environ(next, client_address, os_environ)
    /\ result' = Returned("read", <<>>, "environ")

\* read() when the parser hands over `next` and the k-th send() of the
\* header scan raises socket.error(errno)
ReadSendRaises(next, k, errno) ==
    /\ BeginsCycle
    /\ k \in 1..Len(HeaderScan[next])
    /\ req' = next
    /\ sock' = sock \o SubSeq(HeaderScan[next], 1, k - 1)
    /\ result' = ReadFailure(errno)
    /\ UNCHANGED environ

Read ==
    \/ \E errno \in Errnos : ReadRaises(errno)
    \/ \E next \in ParsedRequests : ReadParsed(next)
    \/ \E next \in ParsedRequests, errno \in Errnos :
          \E k \in 1..Len(next.headers) : ReadSendRaises(next, k, errno)

(***************************************************************************)
(* The session: reads, responses started and replaced, their callables.    *)
(***************************************************************************)
\* the session runs read the clock at one instant
SessionDates ==
    { <<"T","u","e",","," ","0","3"," ","N","o","v"," ","2","0","2","6"," ",
        "1","0",":","0","0",":","0","0"," ","G","M","T">> }

Next ==
    \/ Len(sock) < MaxSessionSends /\ Read
    \/ StartResponse
    \/ \E r \in 1..MaxResponses, date \in SessionDates :
          Len(sock) < MaxSessionSends /\ SendHeaders(r, date)
    \/ \E r \in 1..MaxResponses, arg \in SessionBodies, date \in SessionDates :
          Len(sock) < MaxSessionSends /\ Write(r, arg, date)
    \/ \E r \in 1..MaxResponses, date \in SessionDates :
          Len(sock) < MaxSessionSends /\ Close(r, date)

Spec == Init /\ [][Next]_vars

(***************************************************************************)
(* One response writer: a session whose handler starts one response and    *)
(* drives it with any sequence of send_headers(), write() and close().     *)
(***************************************************************************)
StartResponseNoExc ==
    \E headers \in WriterHeaderLists : start_response(Status200, headers, NoExc)

WriterNext ==
    \/ Len(sock) < MaxSends /\ Read
    \/ StartResponseNoExc
    \/ \E date \in Dates : Len(sock) < MaxSends /\ SendHeaders(1, date)
    \/ \E arg \in Bodies, date \in Dates :
          Len(sock) < MaxSends /\ Write(1, arg, date)
    \/ \E date \in Dates : Len(sock) < MaxSends /\ Close(1, date)

SpecWriter == Init /\ [][WriterNext]_vars

(***************************************************************************)
(* The header filter: a session whose handler starts one response with     *)
(* any header list of the pool and has its header block sent.              *)
(***************************************************************************)
HeadersNext ==
    \/ result.op = "__init__" /\ Read
    \/ result.op \in { "__init__", "read" } /\ StartResponseOnce
    \/ \E date \in Dates : SendHeaders(1, date)

SpecHeaders == Init /\ [][HeadersNext]_vars

(***************************************************************************)
(* The context mapping: a session constructed with any client address and  *)
(* script name, whose first read() takes any request from the parser.      *)
(* KeepAliveRequest.read() returns what Request.read() returns, so the     *)
(* runs take the one variant.                                              *)
(***************************************************************************)
InitEnviron ==
    /\ variant = "Request"
    /\ req = NoReq
    /\ response = 0
    /\ resps = <<>>
    /\ sock = <<>>
    /\ result = Returned("__init__", <<>>, "None")
    /\ held = {}
    /\ closed = {}
    /\ origin = <<>>
    /\ client_address \in ClientAddresses
    /\ os_environ \in ScriptEnvs
    /\ environ = NoEnviron

EnvironNext ==
    \/ result.op = "__init__" /\ \E next \in EnvironRequests : ReadParsed(next)
    \/ result.op = "__init__" /\ \E next \in EnvironRequests, errno \in Errnos :
          \E k \in 1..Len(next.headers) : ReadSendRaises(next, k, errno)

SpecEnviron == InitEnviron /\ [][EnvironNext]_vars

(***************************************************************************)
(* One cycle of a handler: the session's first read(), then any            *)
(* start_response calls and any calls of the write callables they          *)
(* returned.                                                               *)
(***************************************************************************)
CycleNext ==
    \/ result.op = "__init__" /\ Read
    \/ req # NoReq /\ StartResponse
    \/ \E r \in 1..MaxResponses, arg \in SessionBodies, date \in SessionDates :
          /\ req # NoReq
          /\ r \in held
          /\ Len(sock) < MaxCycleSends
          /\ Write(r, arg, date)

SpecCycle == Init /\ [][CycleNext]_vars
(***************************************************************************)
(* Properties of the response writer.                                      *)
(***************************************************************************)
\* the positions of the transport log where op wrote for response r
Positions(op, r) == { i \in 1..Len(sock) : sock[i].op = op /\ sock[i].resp = r }

\* the number of header blocks written for response r
Blocks(r) == Cardinality(Positions("send_headers", r))

WriterOps == { "send_headers", "write", "close" }

EndsWith(s, suffix) ==
    /\ Len(s) >= Len(suffix)
    /\ SubSeq(s, Len(s) - Len(suffix) + 1, Len(s)) = suffix

\* C1: for one response writer and any sequence of send_headers(), write()
\* and close() calls, the header block is on the transport exactly once:
\* none before the first call, one after it and after every later call.
\* (A call made before the keep-alive session has read any request raises
\* AttributeError and counts as no call.)
C1_HeaderBlockOnce ==
    \A r \in 1..Len(resps) :
        /\ Blocks(r) = IF resps[r].headers_sent THEN 1 ELSE 0
        /\ (r = 1 /\ result.op \in WriterOps /\ result.exc # NoAttribute)
               => Blocks(r) = 1

\* C1 witness: a block, a body write and a terminator are on the transport
\* and one more send_headers() has returned.
C1_Witness ==
    /\ Blocks(1) = 1
    /\ Positions("write", 1) # {}
    /\ Positions("close", 1) # {}
    /\ result = Returned("send_headers", <<1>>, "None")

\* C2: every body write and every chunk terminator of a response comes
\* after that response's header block, which is complete: it ends with the
\* blank line.
C2_HeadersBeforeBody ==
    \A i \in 1..Len(sock) :
        sock[i].op \in { "write", "close" } =>
            \E j \in 1..(i - 1) :
                /\ sock[j].op = "send_headers"
                /\ sock[j].resp = sock[i].resp
                /\ EndsWith(sock[j].data, CRLF \o CRLF)

\* C2 witness: the first call on a chunked response was a write(), and a
\* second frame and the terminator followed.
C2_Witness ==
    /\ Len(sock) = 4
    /\ sock[1].op = "send_headers"
    /\ sock[2].op = "write"
    /\ sock[3].op = "write"
    /\ sock[4].op = "close"

\* the bytes written after the header blocks, one entry per sendall()
RECURSIVE BodyData(_)
BodyData(log) ==
    IF log = <<>> THEN <<>>
    ELSE (IF Head(log).op \in { "write", "close" }
          THEN << Head(log).data >> ELSE <<>>) \o BodyData(Tail(log))

\* <hex length> CRLF <data> CRLF
Frame(data) == Hex(Len(data)) \o CRLF \o data \o CRLF

LastChunk == <<"0","\r","\n","\r","\n">>

\* C3: on a chunked response each write(data) that returns puts exactly
\* one frame <hex length> CRLF data CRLF after what was written before, and
\* each close() that returns exactly one 0 CRLF CRLF; on a response that is
\* not chunked write(data) puts the raw data and close() nothing.
C3_ChunkFraming ==
    [][ /\ (result'.op = "write" /\ result'.kind = "return") =>
              BodyData(sock') = BodyData(sock) \o
                  << IF resps[result'.args[1]].chunked
                     THEN Frame(result'.args[2].v) ELSE result'.args[2].v >>
        /\ (result'.op = "close" /\ result'.kind = "return") =>
              BodyData(sock') = BodyData(sock) \o
                  (IF resps[result'.args[1]].chunked THEN << LastChunk >> ELSE <<>>)
      ]_vars

\* C3 witness: a chunked response carries the frame of the sixteen-byte
\* body ("10" in hexadecimal), the frame of another write and, after one
\* close(), the terminator.
C3_Witness ==
    /\ Len(resps) = 1 /\ resps[1].chunked
    /\ Len(sock) = 4
    /\ sock[2].op = "write"
    /\ SubSeq(sock[2].data, 1, 4) = <<"1","0","\r","\n">>
    /\ Len(sock[2].data) = 22
    /\ sock[3].op = "write"
    /\ sock[4] = Sent("close", 1, LastChunk)
    /\ result = Returned("close", <<1>>, "None")

(***************************************************************************)
(* Properties of the header filter.                                        *)
(***************************************************************************)
\* the positions where a CRLF starts
LineEnds(text) ==
    { i \in 1..(Len(text) - 1) : text[i] = "\r" /\ text[i + 1] = "\n" }

\* the lines of a text that ends each line with CRLF, without the CRLFs
Lines(text) ==
    LET ends == LineEnds(text)
        \* the position of the k-th CRLF
        end[k \in 1..Cardinality(ends)] ==
            CHOOSE p \in ends : Cardinality({ q \in ends : q < p }) = k - 1
    IN  [k \in 1..Cardinality(ends) |->
            SubSeq(text, IF k = 1 THEN 1 ELSE end[k - 1] + 2, end[k] - 1)]

\* the part of a header line before its first colon, and the part after
\* the colon and the space
NameOf(line) ==
    LET colons == { i \in 1..Len(line) : line[i] = ":" }
    IN  IF colons = {} THEN line
        ELSE SubSeq(line, 1, (CHOOSE i \in colons : \A c \in colons : i <= c) - 1)

ValueOf(line) == SubSeq(line, Len(NameOf(line)) + 3, Len(line))

IsTransferEncodingChunked(name, value) ==
    strip(lower(name)) = TransferEncoding /\ strip(lower(value)) = Chunked

IsConnectionUpgrade(name, value) ==
    strip(lower(name)) = Connection /\ strip(lower(value)) = Upgrade

\* a header, as a pair of texts, that is hop-by-hop and none of the two kept
Forbidden(name, value) ==
    /\ strip(lower(name)) \in HopHeaders
    /\ ~IsTransferEncodingChunked(name, value)
    /\ ~IsConnectionUpgrade(name, value)

\* the header lines a block carries after the four default lines
EmittedHeaders(block) ==
    LET ls == Lines(block)
    IN  [k \in 1..(Len(ls) - 5) |-> << NameOf(ls[k + 4]), ValueOf(ls[k + 4]) >>]

BlocksSent == { i \in 1..Len(sock) : sock[i].op = "send_headers" }

\* C4: no hop-by-hop header other than Transfer-Encoding: chunked and
\* Connection: Upgrade is in a response's retained header list or in an
\* emitted header block.
C4_HopByHopDropped ==
    /\ \A r \in 1..Len(resps) : \A k \in 1..Len(resps[r].headers) :
           ~Forbidden(resps[r].headers[k][1], resps[r].headers[k][2])
    /\ \A i \in BlocksSent :
           LET hs == EmittedHeaders(sock[i].data)
           IN  \A k \in 1..Len(hs) : ~Forbidden(hs[k][1], hs[k][2])

\* the entries of a header list given to start_response that are
\* Transfer-Encoding: chunked
ChunkedEntries(headers) ==
    { k \in 1..Len(headers) :
        /\ IsString(headers[k][1]) /\ IsString(headers[k][2])
        /\ IsTransferEncodingChunked(headers[k][1].v, headers[k][2].v) }

Trimmed(header) == << strip(header[1].v), strip(header[2].v) >>

InSeq(x, seq) == \E k \in 1..Len(seq) : seq[k] = x

\* a start_response call has just returned the write callable
Started == result.op = "start_response" /\ result.kind = "return"

Starts == result'.op = "start_response"
ExcInfoGiven == result'.args[3]

\* every name and value of the header list is a text
WellFormed(headers) ==
    \A k \in 1..Len(headers) : IsString(headers[k][1]) /\ IsString(headers[k][2])

\* C6: a start_response call with no exc_info while the session holds a
\* response, its headers sent or not, raises the AssertionError "Response
\* headers already set!" and leaves the session's response as it was.
C6_SecondStartFails ==
    [][ (Starts /\ ExcInfoGiven = NoExc /\ response # 0) =>
            /\ result'.kind = "raise"
            /\ result'.exc = HeadersAlreadySet
            /\ response' = response
            /\ resps' = resps
      ]_vars

\* C6 witness: the second plain call failed on a response whose headers
\* were already sent.
C6_Witness ==
    /\ result.op = "start_response"
    /\ result.args[3] = NoExc
    /\ result.exc = HeadersAlreadySet
    /\ response = 1 /\ resps[1].headers_sent

\* C7: a start_response call with exc_info re-raises the captured error and
\* keeps the current response when that response has sent its headers;
\* otherwise it does not raise the captured error and, given a header list
\* of texts, a fresh response with headers_sent false replaces the current
\* one.
C7_ExcInfo ==
    [][ (Starts /\ ExcInfoGiven # NoExc) =>
            IF response # 0 /\ resps[response].headers_sent
            THEN /\ result'.kind = "raise"
                 /\ result'.exc = ExcInfoGiven
                 /\ response' = response
                 /\ resps' = resps
            ELSE /\ result'.exc # ExcInfoGiven
                 /\ WellFormed(result'.args[2]) =>
                        /\ result'.kind = "return"
                        /\ Len(resps') = Len(resps) + 1
                        /\ response' = Len(resps')
                        /\ response' # response
                        /\ ~resps'[response'].headers_sent
      ]_vars

\* C7 witness: a call with exc_info replaced the unsent first response by a
\* second one, and a later call with exc_info, after the second one's
\* headers were sent, re-raised the captured error.
C7_Witness ==
    /\ Len(resps) = 2 /\ response = 2
    /\ ~resps[1].headers_sent /\ resps[2].headers_sent
    /\ result.op = "start_response"
    /\ result.kind = "raise"
    /\ result.exc = HandlerError

\* C8: a call that fails on a value that is not a text writes nothing: a
\* start_response with such a header name, and a write() with such a body
\* on a response whose headers were not sent, leave the transport as it was.
C8_NothingWrittenOnBadInput ==
    [][ /\ (Starts /\ result'.exc = NotAString) => sock' = sock
        /\ (result'.op = "write" /\ result'.exc = NotAString
              /\ ~resps[result'.args[1]].headers_sent) => sock' = sock
      ]_vars

\* the step is a read() in which a socket.error with this errno is raised,
\* by the parser or by a send() of the header scan
RaisedInRead(errno) ==
    \/ ReadRaises(errno)
    \/ \E next \in ParsedRequests : \E k \in 1..Len(next.headers) :
           ReadSendRaises(next, k, errno)

\* C9: a connection reset raised inside read() makes the keep-alive
\* session's read() return None; every other socket.error, and every
\* socket.error on the base session, is raised to the caller as it is.
C9_ResetAbsorbed ==
    [][ \A errno \in Errnos :
          RaisedInRead(errno) =>
              IF variant = "KeepAliveRequest" /\ errno = ECONNRESET
              THEN result'.kind = "return" /\ result'.value = "None"
              ELSE result'.kind = "raise" /\ result'.exc = SocketError(errno)
      ]_vars

\* C9 witness: the keep-alive session's read() returned None after it had
\* taken a request from the parser: the reset came from the send() of the
\* 100 Continue line.
C9_Witness ==
    /\ variant = "KeepAliveRequest"
    /\ result = Returned("read", <<>>, "None")
    /\ req # NoReq
    /\ ExpectSends(req.headers) # <<>>
    /\ sock = <<>>

\* the Connection value the variant owes the response
ConnectionOwed(r) ==
    IF variant = "KeepAliveRequest" /\ origin[r].should_close = FALSE
    THEN <<"k","e","e","p","-","a","l","i","v","e">>
    ELSE <<"c","l","o","s","e">>

ConnectionLines(ls) == { k \in 1..Len(ls) : lower(NameOf(ls[k])) = Connection }

ConnectionHeaders(headers) ==
    { k \in 1..Len(headers) : lower(headers[k][1]) = Connection }

\* C10: the fourth line of every emitted header block is the variant's
\* Connection line, "close" for the base variant and, for the keep-alive
\* variant, "close" when the parsed request of the response's cycle says
\* should_close and "keep-alive" otherwise; the block has no other
\* Connection line but those of the retained header list.
C10_ConnectionLine ==
    \A i \in BlocksSent :
        LET ls == Lines(sock[i].data)
            r  == sock[i].resp
        IN  /\ ls[4] = <<"C","o","n","n","e","c","t","i","o","n",":"," ">>
                           \o ConnectionOwed(r)
            /\ Cardinality(ConnectionLines(ls))
                   = 1 + Cardinality(ConnectionHeaders(resps[r].headers))

\* C10 witness: the keep-alive variant has sent "Connection: close" for a
\* request that says should_close.
C10_Witness ==
    /\ variant = "KeepAliveRequest"
    /\ BlocksSent = { 1 }
    /\ origin[1] # NoReq
    /\ origin[1].should_close
    /\ Lines(sock[1].data)[4] =
           <<"C","o","n","n","e","c","t","i","o","n",":"," ","c","l","o","s","e">>

(***************************************************************************)
(* Properties of the context mapping.                                      *)
(***************************************************************************)
\* the last call was a read() that returned the mapping
ReadReturned ==
    result.op = "read" /\ result.kind = "return" /\ result.value = "environ"

\* the greatest member of a set of positions, 0 for the empty set
Greatest(S) == IF S = {} THEN 0 ELSE CHOOSE k \in S : \A j \in S : j <= k

\* the least member of a set of positions, 0 for the empty set
Least(S) == IF S = {} THEN 0 ELSE CHOOSE k \in S : \A j \in S : k <= j

\* the positions of a character in a text
At(text, c) == { i \in 1..Len(text) : text[i] = c }

\* what follows the last occurrence of c in a text: the whole text when c
\* does not occur
AfterLast(text, c) == SubSeq(text, Greatest(At(text, c)) + 1, Len(text))

\* the X-Forwarded-For value of the request: that of its last such header
Forwarded(headers) == headers[Greatest(Named(headers, XForwardedFor))][2]

\* C11: when the request has an X-Forwarded-For header with several
\* comma-separated addresses, REMOTE_ADDR is its last token, trimmed;
\* without the header REMOTE_ADDR comes from the client address.
C11_ForwardedLastToken ==
    ReadReturned =>
        IF Named(req.headers, XForwardedFor) = {}
        THEN environ[REMOTE_ADDR]
                 = remote_addr(Or(client_address, Str(DefaultAddress)))[1]
        ELSE At(Forwarded(req.headers), ",") # {} =>
                 environ[REMOTE_ADDR]
                     = Str(strip(AfterLast(Forwarded(req.headers), ",")))

\* C12: with no X-Forwarded-For, read() returns only for a client address
\* that is a text; REMOTE_ADDR is what precedes its last colon and
\* REMOTE_PORT what follows it, and an address with no colon gives the
\* whole address and the empty port.
C12_AddressSplit ==
    (ReadReturned /\ Named(req.headers, XForwardedFor) = {}) =>
        /\ IsString(client_address)
        /\ LET address == client_address.v
               colon   == Greatest(At(address, ":"))
           IN  IF colon = 0
               THEN /\ environ[REMOTE_ADDR] = Str(address)
                    /\ environ[REMOTE_PORT] = Str(<<>>)
               ELSE /\ environ[REMOTE_ADDR] = Str(SubSeq(address, 1, colon - 1))
                    /\ environ[REMOTE_PORT]
                           = Str(SubSeq(address, colon + 1, Len(address)))

\* where a script name occurs in a path
Occurs(path, script) ==
    { i \in 1..Len(path) :
        /\ i + Len(script) <= Len(path) + 1
        /\ SubSeq(path, i, i + Len(script) - 1) = script }

\* C13, as amended: PATH_INFO is the decoded rest of the path after the
\* first occurrence of a non-empty script name in it, and the whole decoded
\* path when the script name is empty or does not occur in the path.
C13_PathInfoFirstOccurrence ==
    ReadReturned =>
        LET script == environ[SCRIPT_NAME].v
            path   == req.path
            first  == Least(Occurs(path, script))
        IN  environ[PATH_INFO]
                = Str(unquote(IF script # <<>> /\ first # 0
                              THEN SubSeq(path, first + Len(script), Len(path))
                              ELSE path))

\* C13 witness: the script name /app occurs in /api/app/users, not at its
\* start, and PATH_INFO is /users.
C13_Witness ==
    /\ ReadReturned
    /\ environ[SCRIPT_NAME] = Str(<<"/","a","p","p">>)
    /\ req.path = <<"/","a","p","i","/","a","p","p","/","u","s","e","r","s">>
    /\ environ[PATH_INFO] = Str(<<"/","u","s","e","r","s">>)

\* C13 as stated: PATH_INFO is the decoded rest of the path after a
\* non-empty script name that is a prefix of it, and the whole decoded path
\* when the script name is empty or is no prefix of the path.
C13_PathInfoPrefix ==
    ReadReturned =>
        LET script == environ[SCRIPT_NAME].v
            path   == req.path
        IN  environ[PATH_INFO]
                = Str(unquote(IF script # <<>> /\ 1 \in Occurs(path, script)
                              THEN SubSeq(path, Len(script) + 1, Len(path))
                              ELSE path))

\* the key a header name is passed through under
NormalisedKey(name) ==
    HTTP_ \o [i \in 1..Len(name) |->
                IF name[i] = "-" THEN "_" ELSE UpperChar(name[i])]

\* the value of the last header of the list with this lower-cased name,
\* the empty text when there is none
Dedicated(headers, name) ==
    IF Named(headers, name) = {} THEN <<>>
    ELSE headers[Greatest(Named(headers, name))][2]

\* the value of the last header of the list passed through under this key
PassedValue(headers, key) ==
    headers[Greatest({ k \in 1..Len(headers) :
                         NormalisedKey(headers[k][1]) = key })][2]

\* CONTENT_TYPE and CONTENT_LENGTH come from the header scan and are not
\* passed through under an HTTP_ key
ContentEntries ==
    /\ environ[CONTENT_TYPE] = Str(Dedicated(req.headers, ContentType))
    /\ environ[CONTENT_LENGTH] = Str(Dedicated(req.headers, ContentLength))
    /\ HTTP_CONTENT_TYPE \notin DOMAIN environ
    /\ HTTP_CONTENT_LENGTH \notin DOMAIN environ

\* the header at position k is in the mapping under its key
PassedThrough(k) ==
    LET key == NormalisedKey(req.headers[k][1]) IN
    /\ key \in DOMAIN environ
    /\ environ[key] = Str(PassedValue(req.headers, key))

\* C14, as amended: CONTENT_TYPE and CONTENT_LENGTH are set from the header
\* scan (empty when absent), the mapping has no HTTP_CONTENT_TYPE and no
\* HTTP_CONTENT_LENGTH, and every header whose normalised key is neither
\* of these two is in the mapping under that key.
C14_ContentHeadersByKey ==
    ReadReturned =>
        /\ ContentEntries
        /\ \A k \in 1..Len(req.headers) :
               NormalisedKey(req.headers[k][1])
                   \notin { HTTP_CONTENT_TYPE, HTTP_CONTENT_LENGTH }
               => PassedThrough(k)

\* C14 witness: a request with Content-Type and X-Request-Id: the first is
\* under CONTENT_TYPE only, the second under HTTP_X_REQUEST_ID.
C14_Witness ==
    /\ ReadReturned
    /\ Len(req.headers) = 2
    /\ Named(req.headers, ContentType) # {}
    /\ environ[CONTENT_TYPE] = Str(<<"t","e","x","t","/","p","l","a","i","n">>)
    /\ <<"H","T","T","P","_","X","_","R","E","Q","U","E","S","T","_","I","D">> \in DOMAIN environ
    /\ environ[<<"H","T","T","P","_","X","_","R","E","Q","U","E","S","T","_","I","D">>] = Str(<<"7">>)

\* C14 as stated: as above, with every header other than Content-Type and
\* Content-Length in the mapping under its key.
C14_ContentHeaders ==
    ReadReturned =>
        /\ ContentEntries
        /\ \A k \in 1..Len(req.headers) :
               lower(req.headers[k][1]) \notin { ContentType, ContentLength }
               => PassedThrough(k)

(***************************************************************************)
(* Properties of the session across cycles.                                *)
(***************************************************************************)
\* C15: after a cycle whose response was closed, the read() of the next
\* cycle leaves the session holding no response, and the first
\* start_response without exc_info after it, given a status and headers a
\* response can be made of, returns a write callable of a new response.
C15_NextCycleStarts ==
    [][ /\ (result'.op = "read" /\ result'.kind = "return" /\ response \in closed)
           => response' = 0
        /\ ( /\ result.op = "read" /\ result.kind = "return"
             /\ result'.op = "start_response"
             /\ result'.args[3] = NoExc
             /\ ResponseInit(result'.args[1], result'.args[2]).exc = NoError )
           => /\ result'.kind = "return"
              /\ result'.value = "write"
              /\ response' # response
      ]_vars

\* a request with an Expect header whose value is 100-continue, in any case
AsksContinue(headers) ==
    \E k \in 1..Len(headers) :
        /\ lower(headers[k][1]) = <<"e","x","p","e","c","t">>
        /\ lower(headers[k][2]) = <<"1","0","0","-","c","o","n","t","i","n","u","e">>

\* what a step puts on the transport
Appended(old, new) == SubSeq(new, Len(old) + 1, Len(new))

\* every continue line on the transport precedes every header block of the
\* responses of the current cycle
ContinueBeforeStatus ==
    \A i, j \in 1..Len(sock) :
        (sock[i].data = ContinueLine /\ sock[j].op = "send_headers"
            /\ sock[j].resp \in held)
        => i < j

\* C16: a read() that returns the mapping has put the continue line on the transport
\* if and only if the request has an Expect header with the value
\* 100-continue in any case; only read() puts it, at the end of what was
\* written before, when no response of the new cycle exists, and so before
\* every header block of that cycle.
C16_ContinueOnExpect ==
    [][ /\ (result'.op = "read" /\ result'.value = "environ")
           => /\ SubSeq(sock', 1, Len(sock)) = sock
              /\ (Appended(sock, sock') # <<>>) <=> AsksContinue(req'.headers)
              /\ \A i \in 1..Len(Appended(sock, sock')) :
                     Appended(sock, sock')[i].data = ContinueLine
              /\ held' = {}
        /\ result'.op # "read"
           => \A i \in 1..Len(Appended(sock, sock')) :
                  Appended(sock, sock')[i].data # ContinueLine
        /\ ContinueBeforeStatus'
      ]_vars

\* C16 witness: a request with Expect: 100-Continue was read, the continue
\* line is first on the transport and the header block of the cycle's
\* response follows it.
C16_Witness ==
    /\ req # NoReq
    /\ AsksContinue(req.headers)
    /\ Len(sock) = 2
    /\ sock[1].op = "read" /\ sock[1].data = ContinueLine
    /\ sock[2].op = "send_headers" /\ sock[2].resp \in held

\* headers_sent of a response never goes from true to false
SentStaysSent ==
    \A r \in 1..Len(resps) : resps[r].headers_sent => resps'[r].headers_sent

\* C17, as amended: headers_sent never goes from true back to false, a
\* close() that returns leaves headers_sent true, and after close() no
\* later write() or close() on that response puts a header block on the
\* transport.
C17_SentThenClosed ==
    [][ /\ SentStaysSent
        /\ (result'.op = "close" /\ result'.kind = "return")
           => resps'[result'.args[1]].headers_sent
        /\ \A i \in 1..Len(Appended(sock, sock')) :
               Appended(sock, sock')[i].resp \in closed
               => Appended(sock, sock')[i].op # "send_headers"
      ]_vars

\* C17 witness: a write() after close() has returned and has put its data
\* on the transport after the terminator, with the headers still sent.
C17_Witness ==
    /\ 1 \in closed
    /\ resps[1].headers_sent
    /\ result.op = "write" /\ result.kind = "return"
    /\ Len(sock) = 3
    /\ sock[1].op = "send_headers" /\ sock[2].op = "close" /\ sock[3].op = "write"

\* C17 as stated: headers_sent never goes from true back to false, every
\* close() leaves headers_sent true, and after close() no later write() or
\* close() on that response puts anything on the transport.
C17_ClosedIsFinal ==
    [][ /\ SentStaysSent
        /\ result'.op = "close" => resps'[result'.args[1]].headers_sent
        /\ \A i \in 1..Len(Appended(sock, sock')) :
               Appended(sock, sock')[i].resp \notin closed
      ]_vars

\* C18: the write callables of one cycle, those of replaced responses
\* among them, put at most one header block on the transport.
C18_OneBlockPerCycle ==
    Cardinality({ i \in 1..Len(sock) :
                    sock[i].op = "send_headers" /\ sock[i].resp \in held }) <= 1

\* C19: on a chunked response no write(data) puts the bytes of the
\* terminator 0 CRLF CRLF on the transport; only close() does.
C19_TerminatorOnlyByClose ==
    \A i \in 1..Len(sock) :
        (sock[i].resp # 0 /\ resps[sock[i].resp].chunked
            /\ sock[i].data = <<"0","\r","\n","\r","\n">>)
        => sock[i].op = "close"

\* C20: a start_response that raises leaves the session as it was: the
\* same response, with the same fields, and nothing written.
C20_FailedStartChangesNothing ==
    [][ (result'.op = "start_response" /\ result'.kind = "raise")
        => /\ response' = response
           /\ resps' = resps
           /\ sock' = sock
      ]_vars

\* C20 witness: a start_response has raised while the session held a
\* response whose headers were sent.
C20_Witness ==
    /\ result.op = "start_response" /\ result.kind = "raise"
    /\ response # 0
    /\ resps[response].headers_sent
    /\ sock # <<>>
=============================================================================
